---- MODULE Spec2Model ----
(***************************************************************************)
(* A model of the compliance engine of WriteLoopBackend                    *)
(* (src/app/services/compliance_engine.py): the AuditTrail ledger with its *)
(* size-based rotation and its export, the DataAnonymizer's recursive      *)
(* masking of a record, and the RetentionPolicyManager's eligibility test. *)
(***************************************************************************)
EXTENDS Integers, Sequences, FiniteSets, TLC

(***************************************************************************)
(* Program constants.                                                      *)
(***************************************************************************)
\* compliance_engine.py:180   if len(self.ledger) > 1000
RotateThreshold == 1000
\* compliance_engine.py:189   self.ledger = self.ledger[-100:]
KeepCount == 100

(***************************************************************************)
(* Bounds of the model.                                                    *)
(***************************************************************************)
\* log_access / export_report calls of the sequential audit specification
MaxCalls == 3
\* how far the clock may advance between two reads of datetime.utcnow()
MaxDrift == 1
\* log_access calls of the rotation specification (one more than the 1902
\* that trigger the second rotation, so the ledger is seen growing again)
MaxRotCalls == 1903
\* sequential log_access calls made before the concurrent callers start
WarmUpCalls == 999
\* log_access calls of each concurrent caller
MaxThreadCalls == 2
\* hours the clock of the retention specification advances
MaxTicks == 2
\* seconds the clock of the rate limiter specifications advances
MaxTime == 3
\* the ttl cleanup_stale_buckets is called with, in seconds
Ttl == 2
\* allow_request calls of each caller
MaxRequests == 2
\* capacity of the TokenBucket used on its own, and the most tokens one
\* consume call asks of it
BucketCapacity == 2
MaxTake == 2

Users     == {"u1", "u2"}
Actions   == {"READ", "WRITE"}
Resources == {"profile_data"}
Formats   == {"json", "csv", "xml"}

Loggers   == {"A", "B"}
Exporter  == "E"
Threads   == Loggers \cup {Exporter}

(***************************************************************************)
(* State of one AuditTrail.  Python lists are objects: `lists` is the heap *)
(* of list objects (object id -> contents) and `ledgerRef` the object the  *)
(* attribute self.ledger is bound to.  A caller in the middle of a call    *)
(* holds the object it loaded in `ref` and the slice it built in `slice`.  *)
(* `retired` remembers, for every list object that self.ledger was bound   *)
(* away from, the length it had at that instant.                           *)
(***************************************************************************)
VARIABLES lists, ledgerRef, retired, clock, nextEventId, calls, lastExport,
          pc, ref, slice, threadCalls

auditVars == <<lists, ledgerRef, retired, clock, nextEventId, calls,
               lastExport, pc, ref, slice, threadCalls>>

\* State of one RetentionPolicyManager and its caller: the clock reading
\* `now`, the last check_eligibility call with what it returned, and the
\* last get_cleanup_schedule call with what it returned.
VARIABLES now, lastCheck, schedule

retVars == <<now, lastCheck, schedule>>

\* State of one DataAnonymizer and its caller: the heap `objs` of dict and
\* list objects, the heap `inObjs` as it was when process_record was called,
\* the instance's salt and what the call returned.
VARIABLES objs, inObjs, salt, result

anonVars == <<objs, inObjs, salt, result>>

\* State of one APIRateLimiter (or of one TokenBucket used on its own), of
\* its callers and of the clock time.time() reads: `buckets` is the dict
\* self._buckets (0 for a key it does not hold), `bucketObjs` the heap of
\* TokenBucket objects, `limiterLock` the limiter's lock, `rpc` and `frame`
\* each caller's position and local variables, `sweep` the local variables
\* of cleanup_stale_buckets; `draws` records the last two consume calls
\* that returned and `requests` counts each caller's allow_request calls.
VARIABLES wallTime, buckets, bucketObjs, limiterLock, rpc, frame, sweep,
          draws, requests

rateVars == <<wallTime, buckets, bucketObjs, limiterLock, rpc, frame, sweep,
              draws, requests>>

vars == <<auditVars, retVars, anonVars, rateVars>>

\* self.ledger: the contents of the list the attribute is bound to
ledger == lists[ledgerRef]

NoExport == [status |-> "none", format |-> "", header |-> <<>>, rows |-> <<>>,
             list |-> 0]

(***************************************************************************)
(* Building an entry (log_access, lines 168-176).                          *)
(***************************************************************************)
\* datetime.isoformat(): the ISO text of an instant
Isoformat(t) == <<"iso", t>>

\* datetime.timestamp(): the epoch number of an instant
EpochTimestamp(t) == <<"epoch", t>>

\* The instant an ISO text denotes (the inverse of Isoformat)
ParseIso(s) == s[2]

\* hashlib.sha1(payload).hexdigest(): collision free on the model's payloads
Sha1Hex(payload) == <<"sha1", payload>>

\* _generate_integrity_hash(u, a), called when the clock reads t
GenerateIntegrityHash(u, a, t) ==
    Sha1Hex(<<u, ":", a, ":", EpochTimestamp(t)>>)

\* The dict literal of log_access: "timestamp" is evaluated at clock reading
\* t1, "integrity_hash" later, at clock reading t2 >= t1.  uuid4 yields a
\* fresh identifier; the model uses the serial number of the append.
NewEntry(u, a, r, g, t1, t2, eid) ==
    [timestamp      |-> Isoformat(t1),
     event_id       |-> eid,
     user_id        |-> u,
     action         |-> a,
     resource       |-> r,
     outcome        |-> IF g THEN "GRANTED" ELSE "DENIED",
     integrity_hash |-> GenerateIntegrityHash(u, a, t2)]

Min(a, b) == IF a < b THEN a ELSE b

\* (a variant that keeps the oldest entries)
FirstN(s, n) == IF Len(s) > n THEN SubSeq(s, 1, n) ELSE s

\* s[-n:] of a Python list
LastN(s, n) == IF Len(s) > n THEN SubSeq(s, Len(s) - n + 1, Len(s)) ELSE s

\* _rotate_logs: the list that self.ledger is rebound to
RotateLogs(s) == LastN(s, KeepCount)

\* (a variant that rotates one entry early)
NeedsRotationEarly(s) == Len(s) >= RotateThreshold

\* len(self.ledger) > 1000
NeedsRotation(s) == Len(s) > RotateThreshold

(***************************************************************************)
(* export_report (lines 192-200).                                          *)
(***************************************************************************)
CsvHeader == <<"timestamp", "user_id", "action", "outcome">>

CsvRow(e) == <<e.timestamp, e.user_id, e.action, e.outcome>>

\* (a variant that falls back to JSON for a format it does not know)
ExportOfLenient(format, l, obj) ==
    IF format = "csv"
    THEN [status |-> "ok", format |-> format, header |-> CsvHeader,
          rows |-> [i \in 1..Len(l) |-> CsvRow(l[i])], list |-> obj]
    ELSE [status |-> "ok", format |-> format, header |-> <<>>, rows |-> l,
          list |-> obj]

\* The value export_report returns (or the error it raises) for the list l,
\* which is the object `obj`.
ExportOf(format, l, obj) ==
    IF format = "json"
    THEN [status |-> "ok", format |-> format, header |-> <<>>, rows |-> l,
          list |-> obj]
    ELSE IF format = "csv"
    THEN [status |-> "ok", format |-> format, header |-> CsvHeader,
          rows |-> [i \in 1..Len(l) |-> CsvRow(l[i])], list |-> obj]
    ELSE [status |-> "ValueError", format |-> format, header |-> <<>>,
          rows |-> <<>>, list |-> obj]

(***************************************************************************)
(* Initial state: AuditTrail() (lines 163-165), idle callers.              *)
(***************************************************************************)
AuditInit ==
    /\ lists = (1 :> <<>>)
    /\ ledgerRef = 1
    /\ retired = <<>>
    /\ clock = 0
    /\ nextEventId = 1
    /\ calls = 0
    /\ lastExport = NoExport
    /\ pc = [t \in Threads |-> "idle"]
    /\ ref = [t \in Threads |-> 0]
    /\ slice = [t \in Loggers |-> <<>>]
    /\ threadCalls = [t \in Loggers |-> 0]

(***************************************************************************)
(* A whole log_access call by one caller, nothing interleaved.             *)
(***************************************************************************)
LogAccess(u, a, r, g, d) ==
    LET entry == NewEntry(u, a, r, g, clock, clock + d, nextEventId)
        grown == Append(ledger, entry)
    IN  /\ clock' = clock + d
        /\ nextEventId' = nextEventId + 1
        /\ calls' = calls + 1
        /\ IF NeedsRotation(grown)
           THEN /\ ledgerRef' = ledgerRef + 1
                /\ lists' = ((ledgerRef + 1) :> RotateLogs(grown))
                /\ retired' = retired @@ (ledgerRef :> Len(grown))
           ELSE /\ ledgerRef' = ledgerRef
                /\ lists' = [lists EXCEPT ![ledgerRef] = grown]
                /\ retired' = retired
        /\ UNCHANGED <<lastExport, pc, ref, slice, threadCalls, retVars, anonVars,
                   rateVars>>

\* A whole export_report call by one caller, nothing interleaved.
ExportReport(format) ==
    /\ lastExport' = ExportOf(format, ledger, ledgerRef)
    /\ calls' = calls + 1
    /\ UNCHANGED <<lists, ledgerRef, retired, clock, nextEventId, pc, ref,
                   slice, threadCalls, retVars, anonVars,
                   rateVars>>

(***************************************************************************)
(* DataAnonymizer (lines 40-157).  A Python str is modelled as the         *)
(* sequence of its characters.  Scalar values are tagged: Str, Num, Bool,  *)
(* Null; Digest(p) is the hexadecimal SHA-256 digest of the text p (a str  *)
(* too, one that no pattern of the model's inputs tells from another);     *)
(* Ref(id) is a reference to the dict or list object `id` of the heap.     *)
(***************************************************************************)
Str(s)    == [t |-> "str", s |-> s]
Num(n)    == [t |-> "int", n |-> n]
Bool(b)   == [t |-> "bool", b |-> b]
Null      == [t |-> "null"]
Digest(p) == [t |-> "sha256", of |-> p]
Ref(id)   == [t |-> "ref", id |-> id]

DictObj(keys, vals) == [kind |-> "dict", keys |-> keys, vals |-> vals]
ListObj(elems)      == [kind |-> "list", elems |-> elems]

IsStr(v)  == v.t = "str"
IsRef(v)  == v.t = "ref"

\* isinstance(value, dict), isinstance(value, list)
IsDict(h, v) == IsRef(v) /\ h[v.id].kind = "dict"
IsList(h, v) == IsRef(v) /\ h[v.id].kind = "list"

Digit == {"0", "1", "2", "3", "4", "5", "6", "7", "8", "9"}
DigitSeq == <<"0", "1", "2", "3", "4", "5", "6", "7", "8", "9">>
Uppercase == <<"A", "B", "C", "D", "E", "F", "G", "H", "I", "J", "K", "L", "M", "N", "O", "P", "Q", "R", "S", "T", "U", "V", "W", "X", "Y", "Z">>
Lowercase == <<"a", "b", "c", "d", "e", "f", "g", "h", "i", "j", "k", "l", "m", "n", "o", "p", "q", "r", "s", "t", "u", "v", "w", "x", "y", "z">>
Letter == {Uppercase[i] : i \in 1..26} \cup {Lowercase[i] : i \in 1..26}
AlphaNum == Letter \cup Digit
HexLower == Digit \cup {"a", "b", "c", "d", "e", "f"}

\* Case folding of re.IGNORECASE
LowerChar(c) ==
    IF \E i \in 1..26 : Uppercase[i] = c
    THEN Lowercase[CHOOSE i \in 1..26 : Uppercase[i] = c]
    ELSE c

Lower(s) == [i \in 1..Len(s) |-> LowerChar(s[i])]

\* p occurs in s
Contains(s, p) ==
    \E i \in 0..(Len(s) - Len(p)) : SubSeq(s, i + 1, i + Len(p)) = p

AllIn(s, class) == \A i \in 1..Len(s) : s[i] \in class

\* s[:n] and s[-n:] of a Python str
FirstChars(s, n) == IF Len(s) > n THEN SubSeq(s, 1, n) ELSE s
LastChars(s, n) == IF Len(s) > n THEN SubSeq(s, Len(s) - n + 1, Len(s)) ELSE s

\* "*" * n (the empty str when n <= 0)
Stars(n) == [i \in 1..n |-> "*"]

\* str.split(sep) for a one-character separator
RECURSIVE Split(_, _)
Split(s, sep) ==
    IF \A i \in 1..Len(s) : s[i] # sep
    THEN <<s>>
    ELSE LET i == CHOOSE j \in 1..Len(s) :
                      s[j] = sep /\ \A k \in 1..(j - 1) : s[k] # sep
         IN  <<SubSeq(s, 1, i - 1)>> \o Split(SubSeq(s, i + 1, Len(s)), sep)

\* A pattern anchored by ^...$: `$` also matches just before a final newline
Anchored(P(_), s) ==
    \/ P(s)
    \/ Len(s) > 0 /\ s[Len(s)] = "\n" /\ P(SubSeq(s, 1, Len(s) - 1))

\* s has the length of shape, a digit wherever shape has "#" and shape's own
\* character everywhere else
HasShape(s, shape) ==
    /\ Len(s) = Len(shape)
    /\ \A i \in 1..Len(s) :
          IF shape[i] = "#" THEN s[i] \in Digit ELSE s[i] = shape[i]

(***************************************************************************)
(* REGEX_PATTERNS (lines 48-57): the Pattern Library.                      *)
(***************************************************************************)
\* [a-zA-Z0-9_.+-]+@[a-zA-Z0-9-]+\.[a-zA-Z0-9-.]+
EmailCore(s) ==
    \E i \in 2..Len(s) : \E j \in (i + 2)..(Len(s) - 1) :
        /\ s[i] = "@"
        /\ s[j] = "."
        /\ AllIn(SubSeq(s, 1, i - 1), AlphaNum \cup {"_", ".", "+", "-"})
        /\ AllIn(SubSeq(s, i + 1, j - 1), AlphaNum \cup {"-"})
        /\ AllIn(SubSeq(s, j + 1, Len(s)), AlphaNum \cup {"-", "."})

\* 25[0-5]|2[0-4][0-9]|[01]?[0-9][0-9]?
Octet(p) ==
    /\ Len(p) \in 1..3
    /\ AllIn(p, Digit)
    /\ Len(p) = 3 =>
          \/ p[1] \in {"0", "1"}
          \/ p[1] = "2" /\ p[2] \in {"0", "1", "2", "3", "4"}
          \/ p[1] = "2" /\ p[2] = "5" /\ p[3] \in {"0", "1", "2", "3", "4", "5"}

Ipv4Core(s) ==
    LET parts == Split(s, ".")
    IN  Len(parts) = 4 /\ \A i \in 1..4 : Octet(parts[i])

\* (\+?86)?1[3-9]\d{9}
PhoneCnCore(s) ==
    \E prefix \in {<<>>, <<"8", "6">>, <<"+", "8", "6">>} :
        /\ Len(s) = Len(prefix) + 11
        /\ SubSeq(s, 1, Len(prefix)) = prefix
        /\ LET b == SubSeq(s, Len(prefix) + 1, Len(s))
           IN  /\ b[1] = "1"
               /\ b[2] \in {"3", "4", "5", "6", "7", "8", "9"}
               /\ AllIn(SubSeq(b, 3, 11), Digit)

\* \(?([0-9]{3})\)?[-. ]?([0-9]{3})[-. ]?([0-9]{4})
PhoneUsCore(s) ==
    \E open \in {<<>>, <<"(">>}, close \in {<<>>, <<")">>},
       sep1 \in {<<>>, <<"-">>, <<".">>, <<" ">>},
       sep2 \in {<<>>, <<"-">>, <<".">>, <<" ">>} :
        HasShape(s, open \o <<"#", "#", "#">> \o close \o sep1
                         \o <<"#", "#", "#">> \o sep2 \o <<"#", "#", "#", "#">>)

\* the alternatives of the credit_card pattern: digits only, told apart by
\* their first digits and their length
CreditCardCore(s) ==
    /\ AllIn(s, Digit)
    /\ Len(s) >= 13
    /\ \/ s[1] = "4" /\ Len(s) \in {13, 16}
       \/ s[1] = "5" /\ s[2] \in {"1", "2", "3", "4", "5"} /\ Len(s) = 16
       \/ s[1] = "3" /\ s[2] \in {"4", "7"} /\ Len(s) = 15
       \/ /\ s[1] = "3" /\ Len(s) = 14
          /\ \/ s[2] = "0" /\ s[3] \in {"0", "1", "2", "3", "4", "5"}
             \/ s[2] \in {"6", "8"}
       \/ /\ s[1] = "6" /\ Len(s) = 16
          /\ \/ SubSeq(s, 2, 4) = <<"0", "1", "1">>
             \/ s[2] = "5"
       \/ SubSeq(s, 1, 4) = <<"2", "1", "3", "1">> /\ Len(s) = 15
       \/ SubSeq(s, 1, 4) = <<"1", "8", "0", "0">> /\ Len(s) = 15
       \/ SubSeq(s, 1, 2) = <<"3", "5">> /\ Len(s) = 16

\* \d{3}-\d{2}-\d{4}
SsnCore(s) == HasShape(s, <<"#", "#", "#", "-", "#", "#", "-", "#", "#", "#", "#">>)

\* [0-9a-f]{8}-[0-9a-f]{4}-[0-9a-f]{4}-[0-9a-f]{4}-[0-9a-f]{12}
UuidCore(s) ==
    /\ Len(s) = 36
    /\ \A i \in 1..36 :
          IF i \in {9, 14, 19, 24} THEN s[i] = "-" ELSE s[i] \in HexLower

\* \d{4}-\d{2}-\d{2}T\d{2}:\d{2}:\d{2}(?:\.\d+)?(?:Z|[+-]\d{2}:?\d{2})?
DateIsoCore(s) ==
    /\ Len(s) >= 19
    /\ HasShape(SubSeq(s, 1, 19), <<"#", "#", "#", "#", "-", "#", "#", "-", "#", "#", "T", "#", "#", ":", "#", "#", ":", "#", "#">>)
    /\ \E k \in 19..Len(s) :
          LET frac == SubSeq(s, 20, k)
              zone == SubSeq(s, k + 1, Len(s))
          IN  /\ \/ frac = <<>>
                 \/ /\ Len(frac) >= 2
                    /\ frac[1] = "."
                    /\ AllIn(SubSeq(frac, 2, Len(frac)), Digit)
              /\ \/ zone = <<>>
                 \/ zone = <<"Z">>
                 \/ \E sign \in {"+", "-"}, colon \in {<<>>, <<":">>} :
                       HasShape(zone, <<sign, "#", "#">> \o colon \o <<"#", "#">>)

\* The keys of REGEX_PATTERNS
PatternKeys == {"email", "ipv4", "phone_cn", "phone_us", "credit_card", "ssn",
                "uuid", "date_iso"}

\* REGEX_PATTERNS[name].match(s)
PatternMatches(name, s) ==
    CASE name = "email"       -> Anchored(EmailCore, s)
      [] name = "ipv4"        -> Anchored(Ipv4Core, s)
      [] name = "phone_cn"    -> Anchored(PhoneCnCore, s)
      [] name = "phone_us"    -> Anchored(PhoneUsCore, s)
      [] name = "credit_card" -> Anchored(CreditCardCore, s)
      [] name = "ssn"         -> Anchored(SsnCore, s)
      [] name = "uuid"        -> Anchored(UuidCore, s)
      [] name = "date_iso"    -> Anchored(DateIsoCore, s)

(***************************************************************************)
(* The rule table (_initialize_rules, lines 70-79) and _matches_rule.      *)
(***************************************************************************)
Rule(field_name, pattern, masking_strategy) ==
    [field_name |-> field_name, pattern |-> pattern,
     masking_strategy |-> masking_strategy]

Rules ==
    <<Rule(<<"e", "m", "a", "i", "l">>, "email", "partial_mask"),
      Rule(<<"p", "a", "s", "s", "w", "o", "r", "d">>, ".*", "hash"),
      Rule(<<"p", "h", "o", "n", "e">>, "phone_.*", "last_4_digits"),
      Rule(<<"a", "d", "d", "r", "e", "s", "s">>, ".*", "suppress"),
      Rule(<<"i", "p", "_", "a", "d", "d", "r", "e", "s", "s">>, "ipv4", "mask_subnet"),
      Rule(<<"c", "r", "e", "d", "i", "t", "_", "c", "a", "r", "d">>, "credit_card", "luhn_check_mask"),
      Rule(<<"a", "u", "t", "h", "_", "t", "o", "k", "e", "n">>, ".*", "redact"),
      Rule(<<"s", "e", "s", "s", "i", "o", "n", "_", "i", "d">>, ".*", "hash")>>

\* re.search(rule.field_name, key, re.IGNORECASE): every field_name of the
\* table is a literal, so the search is a case-insensitive substring test
KeyMatches(rule, key) == Contains(Lower(key), rule.field_name)

\* (a variant that takes a value-pattern key that names no entry of the
\* library for a regular expression, so that ".*" and "phone_.*" match
\* by value)
MatchesRuleByAnyPattern(key, value, rule) ==
    \/ KeyMatches(rule, key)
    \/ /\ IsStr(value)
       /\ \/ rule.pattern = ".*"
          \/ /\ rule.pattern = "phone_.*"
             /\ \/ PatternMatches("phone_cn", value.s)
                \/ PatternMatches("phone_us", value.s)
          \/ /\ rule.pattern \in PatternKeys
             /\ PatternMatches(rule.pattern, value.s)

\* _matches_rule(key, value, rule)
MatchesRule(key, value, rule) ==
    \/ KeyMatches(rule, key)
    \/ /\ IsStr(value)
       /\ rule.pattern \in PatternKeys
       /\ PatternMatches(rule.pattern, value.s)

\* (a variant in which the last matching rule wins)
LastMatch(key, value) ==
    IF \E k \in 1..Len(Rules) : MatchesRule(key, value, Rules[k])
    THEN CHOOSE k \in 1..Len(Rules) :
            /\ MatchesRule(key, value, Rules[k])
            /\ \A j \in (k + 1)..Len(Rules) : ~MatchesRule(key, value, Rules[j])
    ELSE 0

\* The rule the loop of lines 101-104 stops at: the index of the first rule
\* that matches, 0 when none does
FirstMatch(key, value) ==
    IF \E k \in 1..Len(Rules) : MatchesRule(key, value, Rules[k])
    THEN CHOOSE k \in 1..Len(Rules) :
            /\ MatchesRule(key, value, Rules[k])
            /\ \A j \in 1..(k - 1) : ~MatchesRule(key, value, Rules[j])
    ELSE 0

(***************************************************************************)
(* _apply_mask (lines 123-157).  It returns a value or raises: the result  *)
(* is [err |-> "", v |-> value] or [err |-> the exception, v |-> Null].    *)
(***************************************************************************)
Return(v) == [err |-> "", v |-> v]
Raise(e)  == [err |-> e, v |-> Null]

\* (a variant in which only None short-circuits)
FalsyOnlyNone(v) == v.t = "null"

\* `not value`
Falsy(v) ==
    \/ v.t = "null"
    \/ v.t = "str" /\ v.s = <<>>
    \/ v.t = "int" /\ v.n = 0
    \/ v.t = "bool" /\ ~v.b

\* str(n) of a non-negative int
RECURSIVE Decimal(_)
Decimal(n) ==
    IF n < 10 THEN <<DigitSeq[n + 1]>>
    ELSE Decimal(n \div 10) \o <<DigitSeq[(n % 10) + 1]>>

\* str(value)
StrOf(v) ==
    CASE v.t = "str"  -> v.s
      [] v.t = "int"  -> IF v.n < 0 THEN <<"-">> \o Decimal(0 - v.n)
                         ELSE Decimal(v.n)
      [] v.t = "bool" -> IF v.b THEN <<"T", "r", "u", "e">> ELSE <<"F", "a", "l", "s", "e">>
      [] v.t = "null" -> <<"N", "o", "n", "e">>

\* (a variant in which every instance hashes with the same salt)
HashMaskSharedSalt(val_str, key_salt) == Digest(val_str \o <<"5", "f">>)

\* (a variant that leaves the salt out of the hash)
HashMaskUnsalted(val_str, key_salt) == Digest(val_str)

\* hashlib.sha256((val_str + self.salt).encode()).hexdigest()
HashMask(val_str, key_salt) == Digest(val_str \o key_salt)

\* (a variant that gives a local part of at most two characters one
\* asterisk)
PartialMaskOneStar(val_str) ==
    IF \E i \in 1..Len(val_str) : val_str[i] = "@"
    THEN LET parts == Split(val_str, "@")
         IN  IF Len(parts) # 2
             THEN Raise("ValueError")
             ELSE LET user == parts[1]
                      domain == parts[2]
                  IN  IF Len(user) > 2
                      THEN Return(Str(<<user[1]>> \o Stars(Len(user) - 2)
                                      \o <<user[Len(user)]>> \o <<"@">>
                                      \o domain))
                      ELSE IF Len(user) = 0
                      THEN Raise("IndexError")
                      ELSE Return(Str(<<user[1]>> \o <<"*">> \o <<"@">>
                                      \o domain))
    ELSE Return(Str(FirstChars(val_str, 2) \o <<"*", "*", "*", "*">>
                    \o LastChars(val_str, 2)))

\* the "partial_mask" branch (lines 136-140)
PartialMask(val_str) ==
    IF \E i \in 1..Len(val_str) : val_str[i] = "@"
    THEN LET parts == Split(val_str, "@")
         IN  IF Len(parts) # 2
             THEN Raise("ValueError")    \* user, domain = ...: unpacking
             ELSE LET user == parts[1]
                      domain == parts[2]
                  IN  IF Len(user) > 2
                      THEN Return(Str(<<user[1]>> \o Stars(Len(user) - 2)
                                      \o <<user[Len(user)]>> \o <<"@">>
                                      \o domain))
                      ELSE IF Len(user) = 0
                      THEN Raise("IndexError")    \* user[0] of ""
                      ELSE Return(Str(<<user[1]>> \o <<"*", "*", "*">> \o <<"@">>
                                      \o domain))
    ELSE Return(Str(FirstChars(val_str, 2) \o <<"*", "*", "*", "*">>
                    \o LastChars(val_str, 2)))

\* the "last_4_digits" branch (line 143)
Last4Digits(val_str) ==
    IF Len(val_str) > 4
    THEN Str(Stars(Len(val_str) - 4) \o LastChars(val_str, 4))
    ELSE Str(<<"*", "*", "*", "*">>)

\* the "mask_subnet" branch (lines 146-149)
MaskSubnet(val_str) ==
    LET parts == Split(val_str, ".")
    IN  IF Len(parts) = 4
        THEN Str(parts[1] \o <<".">> \o parts[2] \o <<".", "*", "*", "*", ".", "*", "*", "*">>)
        ELSE Str(<<"0", ".", "0", ".", "0", ".", "0">>)

\* _apply_mask(value, strategy)
ApplyMask(value, strategy, key_salt) ==
    IF Falsy(value) THEN Return(value)
    ELSE LET val_str == StrOf(value)
         IN  CASE strategy = "hash"          -> Return(HashMask(val_str, key_salt))
               [] strategy = "partial_mask"  -> PartialMask(val_str)
               [] strategy = "last_4_digits" -> Return(Last4Digits(val_str))
               [] strategy = "mask_subnet"   -> Return(MaskSubnet(val_str))
               [] strategy = "redact"        -> Return(Str(<<"[", "R", "E", "D", "A", "C", "T", "E", "D", "]">>))
               [] strategy = "suppress"      -> Return(Null)
               [] OTHER                      -> Return(Str(<<"*", "*", "*", "*", "*", "*">>))

(***************************************************************************)
(* process_record (lines 81-106) on the heap h of dict and list objects.   *)
(* A dict object holds its keys in insertion order and the value of each.  *)
(***************************************************************************)
KeyIndex(d, key) == CHOOSE i \in 1..Len(d.keys) : d.keys[i] = key

HasKey(d, key) == \E i \in 1..Len(d.keys) : d.keys[i] = key

\* (a variant in which storing None removes the key)
SetItemDroppingNone(h, id, key, v) ==
    LET d == h[id]
        keep == {i \in 1..Len(d.keys) : d.keys[i] # key}
        nth(n) == CHOOSE i \in keep : Cardinality({j \in keep : j <= i}) = n
    IN  IF v.t = "null"
        THEN [h EXCEPT ![id] =
                 DictObj([n \in 1..Cardinality(keep) |-> d.keys[nth(n)]],
                         [n \in 1..Cardinality(keep) |-> d.vals[nth(n)]])]
        ELSE IF HasKey(d, key)
        THEN [h EXCEPT ![id].vals[KeyIndex(d, key)] = v]
        ELSE [h EXCEPT ![id] = DictObj(Append(d.keys, key), Append(d.vals, v))]

\* d[key] = v on the dict object id
SetItem(h, id, key, v) ==
    LET d == h[id]
    IN  IF HasKey(d, key)
        THEN [h EXCEPT ![id].vals[KeyIndex(d, key)] = v]
        ELSE [h EXCEPT ![id] = DictObj(Append(d.keys, key), Append(d.vals, v))]

\* (a variant that works on the record itself)
CopyRecordInPlace(h, r) == [heap |-> h, id |-> r]

\* record.copy(): a new dict object with the same keys bound to the same
\* values (a shallow copy)
CopyRecord(h, r) == [heap |-> Append(h, h[r]), id |-> Len(h) + 1]

RECURSIVE ProcessRecord(_, _, _)
RECURSIVE ProcessItems(_, _, _, _, _)
RECURSIVE ProcessElems(_, _, _, _, _)

\* (a variant that checks the scalar elements of a sequence against the
\* value patterns of the rules)
RECURSIVE ProcessElemsMasking(_, _, _, _, _)
ProcessElemsMasking(h, elems, j, acc, key_salt) ==
    IF j > Len(elems) THEN [heap |-> h, elems |-> acc, err |-> ""]
    ELSE IF IsDict(h, elems[j])
    THEN LET sub == ProcessRecord(h, elems[j].id, key_salt)
         IN  IF sub.err # ""
             THEN [heap |-> sub.heap, elems |-> acc, err |-> sub.err]
             ELSE ProcessElemsMasking(sub.heap, elems, j + 1,
                                      Append(acc, Ref(sub.out)), key_salt)
    ELSE LET k == FirstMatch(<<>>, elems[j])
             m == ApplyMask(elems[j], Rules[k].masking_strategy, key_salt)
         IN  ProcessElemsMasking(h, elems, j + 1,
                                 Append(acc, IF k = 0 THEN elems[j] ELSE m.v),
                                 key_salt)

\* The list comprehension of lines 94-97 over elems, from element j on; acc
\* holds the elements built so far.
ProcessElems(h, elems, j, acc, key_salt) ==
    IF j > Len(elems) THEN [heap |-> h, elems |-> acc, err |-> ""]
    ELSE IF IsDict(h, elems[j])
    THEN LET sub == ProcessRecord(h, elems[j].id, key_salt)
         IN  IF sub.err # ""
             THEN [heap |-> sub.heap, elems |-> acc, err |-> sub.err]
             ELSE ProcessElems(sub.heap, elems, j + 1,
                               Append(acc, Ref(sub.out)), key_salt)
    ELSE ProcessElems(h, elems, j + 1, Append(acc, elems[j]), key_salt)

\* The loop of lines 87-104 over record.items() of the dict object r, from
\* its i-th item on; sid is the dict object sanitized_record.
ProcessItems(h, r, sid, i, key_salt) ==
    IF i > Len(h[r].keys) THEN [heap |-> h, err |-> ""]
    ELSE LET key == h[r].keys[i]
             value == h[r].vals[i]
         IN  IF IsDict(h, value)
             THEN LET sub == ProcessRecord(h, value.id, key_salt)
                  IN  IF sub.err # ""
                      THEN [heap |-> sub.heap, err |-> sub.err]
                      ELSE ProcessItems(SetItem(sub.heap, sid, key, Ref(sub.out)),
                                        r, sid, i + 1, key_salt)
             ELSE IF IsList(h, value)
             THEN LET sub == ProcessElems(h, h[value.id].elems, 1, <<>>, key_salt)
                      h2  == Append(sub.heap, ListObj(sub.elems))
                  IN  IF sub.err # ""
                      THEN [heap |-> sub.heap, err |-> sub.err]
                      ELSE ProcessItems(SetItem(h2, sid, key, Ref(Len(h2))),
                                        r, sid, i + 1, key_salt)
             ELSE LET k == FirstMatch(key, value)
                      m == ApplyMask(value, Rules[k].masking_strategy, key_salt)
                  IN  IF k = 0
                      THEN ProcessItems(h, r, sid, i + 1, key_salt)
                      ELSE IF m.err # ""
                      THEN [heap |-> h, err |-> m.err]
                      ELSE ProcessItems(SetItem(h, sid, key, m.v), r, sid,
                                        i + 1, key_salt)

\* process_record(record) for the dict object r: the heap it leaves, the
\* dict it returns (out) or the exception it raises (err)
ProcessRecord(h, r, key_salt) ==
    LET copy == CopyRecord(h, r)
        done == ProcessItems(copy.heap, r, copy.id, 1, key_salt)
    IN  [heap |-> done.heap,
         out  |-> IF done.err = "" THEN copy.id ELSE 0,
         err  |-> done.err]

(***************************************************************************)
(* The records a caller passes to process_record: string keys bound to     *)
(* scalars, to nested records or to sequences of scalars and records.  The *)
(* record passed is object 1 of the heap.                                  *)
(***************************************************************************)
KeyPassword  == <<"p", "a", "s", "s", "w", "o", "r", "d">>
KeyEmail     == <<"e", "m", "a", "i", "l">>
KeyAddress   == <<"a", "d", "d", "r", "e", "s", "s">>
KeyNote      == <<"n", "o", "t", "e">>
KeyUserEmail == <<"U", "s", "e", "r", "_", "E", "m", "a", "i", "l">>
KeyIp        == <<"i", "p", "_", "a", "d", "d", "r", "e", "s", "s">>

Keys == {KeyPassword, KeyEmail, KeyAddress, KeyNote, KeyUserEmail, KeyIp}

Texts ==
    {<<>>, <<"h", "u", "n", "t", "e", "r", "2">>, <<"x">>, <<"a", "@", "b", ".", "c">>, <<"b", "o", "b", "@", "x", ".", "o", "r", "g">>, <<"a", "@", "b", "@", "c">>,
     <<"@", "b", ".", "c">>, <<"1", "9", "2", ".", "1", "6", "8", ".", "1", ".", "5">>,
     <<"a", "b", "@", "e", "x", "a", "m", "p", "l", "e", ".", "c", "o", "m">>,
     <<"a", "l", "i", "c", "e", "@", "e", "x", "a", "m", "p", "l", "e", ".", "c", "o", "m">>,
     <<"1", "3", "8", "0", "0", "1", "3", "8", "0", "0", "0">>,
     <<"5", "5", "5", "-", "1", "2", "3", "-", "4", "5", "6", "7">>}

Scalars == {Str(s) : s \in Texts}
           \cup {Num(0), Num(7), Bool(TRUE), Bool(FALSE), Null}

FewScalars == {Str(<<"h", "u", "n", "t", "e", "r", "2">>), Str(<<"a", "@", "b", ".", "c">>), Str(<<>>), Num(7), Null}

Salts == {<<"5", "f">>, <<"c", "3">>}

FlatRecords ==
    {<<DictObj(<<>>, <<>>)>>}
    \cup {<<DictObj(<<k>>, <<v>>)>> : k \in Keys, v \in Scalars}
    \cup {h \in {<<DictObj(<<k1, k2>>, <<v1, v2>>)>> :
                       k1 \in Keys, k2 \in {KeyPassword, KeyAddress, KeyNote},
                       v1 \in FewScalars, v2 \in FewScalars} :
             h[1].keys[1] # h[1].keys[2]}

NestedRecords ==
    {<<DictObj(<<k1>>, <<Ref(2)>>), DictObj(<<k2>>, <<v>>)>> :
        k1 \in Keys, k2 \in Keys, v \in Scalars}

ListRecords ==
    {<<DictObj(<<k1>>, <<Ref(2)>>), ListObj(<<v1, Ref(3)>>),
       DictObj(<<k2>>, <<v2>>)>> :
        k1 \in {KeyPassword, KeyNote}, v1 \in FewScalars,
        k2 \in Keys, v2 \in Scalars}
    \cup {<<DictObj(<<k1>>, <<Ref(2)>>), ListObj(<<>>)>> : k1 \in Keys}

DeepRecords ==
    {<<DictObj(<<k1, KeyAddress>>, <<Ref(2), v1>>),
       DictObj(<<KeyNote>>, <<Ref(3)>>),
       ListObj(<<Ref(4), v2>>),
       DictObj(<<k2>>, <<v3>>)>> :
        k1 \in {KeyEmail, KeyNote}, k2 \in {KeyPassword, KeyEmail, KeyAddress},
        v1 \in FewScalars, v2 \in FewScalars, v3 \in FewScalars}

InputHeaps == FlatRecords \cup NestedRecords \cup ListRecords \cup DeepRecords

NoResult == [status |-> "pending", out |-> 0]

\* A DataAnonymizer (__init__, lines 59-63: a fresh salt, the rule table) and
\* a record about to be processed
AnonInit ==
    /\ objs \in InputHeaps
    /\ inObjs = objs
    /\ salt \in Salts
    /\ result = NoResult

\* No record is being processed
AnonIdle ==
    /\ objs = <<DictObj(<<>>, <<>>)>>
    /\ inObjs = objs
    /\ salt = <<"5", "f">>
    /\ result = NoResult

(***************************************************************************)
(* rate_limiter.py: TokenBucket (lines 8-41) and APIRateLimiter (lines     *)
(* 43-88).  time.time() is counted in whole seconds and never goes back.   *)
(* A caller holds a lock from the step that acquires it to the step that   *)
(* ends the `with` block.                                                  *)
(***************************************************************************)
\* self._default_limit and self._vip_limit (lines 50-51)
DefaultCapacity == 60
DefaultRate     == 1
VipCapacity     == 200
VipRate         == 5

Clients    == {"c1"}
Requesters == {"R1", "R2"}
Cleaner    == "G"
Callers    == Requesters \cup {Cleaner}

\* The client name recorded for a consume on the TokenBucket used on its
\* own
Direct == "direct"

\* TokenBucket.__init__(capacity, refill_rate) when the clock reads t
TokenBucket(capacity, refill_rate, t) ==
    [capacity |-> capacity, tokens |-> capacity,
     refill_rate |-> refill_rate, last_refill |-> t, lock |-> "free"]

\* _refill, line 40: the token count after a refill at clock reading t
Refilled(b, t) ==
    Min(b.capacity, b.tokens + (t - b.last_refill) * b.refill_rate)

NoFrame == [client |-> "", bucket |-> 0, tokens |-> 0, now |-> 0]
NoSweep == [current_time |-> 0, keys_to_remove |-> {}]

RateInit ==
    /\ wallTime = 0
    /\ buckets = [c \in Clients |-> 0]
    /\ bucketObjs = <<>>
    /\ limiterLock = "free"
    /\ rpc = [t \in Callers |-> "idle"]
    /\ frame = [t \in Callers |-> NoFrame]
    /\ sweep = NoSweep
    /\ draws = <<>>
    /\ requests = [t \in Callers |-> 0]

\* time.time() moves on
RateTick ==
    /\ wallTime < MaxTime
    /\ wallTime' = wallTime + 1
    /\ UNCHANGED <<buckets, bucketObjs, limiterLock, rpc, frame, sweep, draws,
                   requests, auditVars, retVars, anonVars>>

\* allow_request(client_id, is_vip), line 65: get_bucket, the whole of its
\* `with self._lock` block (lines 55-59); the caller goes on to consume(1)
R_GetBucket(t, key, is_vip) ==
    /\ rpc[t] = "idle"
    /\ requests[t] < MaxRequests
    /\ limiterLock = "free"
    /\ IF buckets[key] = 0
       THEN /\ bucketObjs' =
                  Append(bucketObjs,
                         IF is_vip
                         THEN TokenBucket(VipCapacity, VipRate, wallTime)
                         ELSE TokenBucket(DefaultCapacity, DefaultRate,
                                          wallTime))
            /\ buckets' = [buckets EXCEPT ![key] = Len(bucketObjs) + 1]
       ELSE UNCHANGED <<bucketObjs, buckets>>
    /\ frame' = [frame EXCEPT ![t] = [client |-> key, bucket |-> buckets'[key],
                                      tokens |-> 1, now |-> 0]]
    /\ rpc' = [rpc EXCEPT ![t] = "acquire"]
    /\ requests' = [requests EXCEPT ![t] = @ + 1]
    /\ UNCHANGED <<wallTime, limiterLock, sweep, draws, auditVars, retVars,
                   anonVars>>

\* consume(tokens) called on the TokenBucket b directly
B_Consume(t, b, n) ==
    /\ rpc[t] = "idle"
    /\ frame' = [frame EXCEPT ![t] = [client |-> Direct, bucket |-> b,
                                      tokens |-> n, now |-> 0]]
    /\ rpc' = [rpc EXCEPT ![t] = "acquire"]
    /\ UNCHANGED <<wallTime, buckets, bucketObjs, limiterLock, sweep, draws,
                   requests, auditVars, retVars, anonVars>>

\* consume, line 29: `with self._lock` of the bucket
B_Acquire(t) ==
    /\ rpc[t] = "acquire"
    /\ bucketObjs[frame[t].bucket].lock = "free"
    /\ bucketObjs' = [bucketObjs EXCEPT ![frame[t].bucket].lock = t]
    /\ rpc' = [rpc EXCEPT ![t] = "refill"]
    /\ UNCHANGED <<wallTime, buckets, limiterLock, frame, sweep, draws,
                   requests, auditVars, retVars, anonVars>>

\* _refill, lines 37-40: now = time.time() and the assignment of _tokens
B_RefillTokens(t) ==
    /\ rpc[t] = "refill"
    /\ frame' = [frame EXCEPT ![t].now = wallTime]
    /\ bucketObjs' = [bucketObjs EXCEPT ![frame[t].bucket].tokens =
                          Refilled(bucketObjs[frame[t].bucket], wallTime)]
    /\ rpc' = [rpc EXCEPT ![t] = "stamp"]
    /\ UNCHANGED <<wallTime, buckets, limiterLock, sweep, draws, requests,
                   auditVars, retVars, anonVars>>

\* _refill, line 41: self._last_refill = now
B_RefillStamp(t) ==
    /\ rpc[t] = "stamp"
    /\ bucketObjs' = [bucketObjs EXCEPT ![frame[t].bucket].last_refill =
                          frame[t].now]
    /\ rpc' = [rpc EXCEPT ![t] = "take"]
    /\ UNCHANGED <<wallTime, buckets, limiterLock, frame, sweep, draws,
                   requests, auditVars, retVars, anonVars>>

\* (a variant of the test of line 31 that grants one token too many)
EnoughOrOneShort(b, n) == b.tokens + 1 >= n

\* consume, line 31: self._tokens >= tokens
Enough(b, n) == b.tokens >= n

\* consume, lines 31-34 and the end of the `with` block: the test, the
\* subtraction and the return.  The call is recorded in draws (which keeps
\* the last two) with the bucket, the clock reading, whether the bucket is
\* the one self._buckets holds for the client, the token count before and
\* after, and the result.
B_Take(t) ==
    /\ rpc[t] = "take"
    /\ LET id == frame[t].bucket
           b == bucketObjs[id]
           n == frame[t].tokens
           allowed == Enough(b, n)
           left == IF allowed THEN b.tokens - n ELSE b.tokens
       IN  /\ bucketObjs' = [bucketObjs EXCEPT ![id].tokens = left,
                                               ![id].lock = "free"]
           /\ draws' = LastN(Append(draws,
                  [client |-> frame[t].client, bucket |-> id,
                   at |-> wallTime,
                   registered |-> /\ frame[t].client \in Clients
                                  /\ buckets[frame[t].client] = id,
                   tokens |-> n, before |-> b.tokens, after |-> left,
                   allowed |-> allowed]), 2)
    /\ rpc' = [rpc EXCEPT ![t] = "idle"]
    /\ frame' = [frame EXCEPT ![t] = NoFrame]
    /\ UNCHANGED <<wallTime, buckets, limiterLock, sweep, requests, auditVars,
                   retVars, anonVars>>

\* cleanup_stale_buckets, line 81: the bucket of key is stale
Stale(key, current_time, ttl) ==
    /\ buckets[key] # 0
    /\ current_time - bucketObjs[buckets[key]].last_refill > ttl

\* cleanup_stale_buckets(ttl), lines 77-82: the limiter's lock is taken,
\* the clock is read and the stale keys are collected
G_Scan(ttl) ==
    /\ rpc[Cleaner] = "idle"
    /\ limiterLock = "free"
    /\ limiterLock' = Cleaner
    /\ sweep' = [current_time |-> wallTime,
                 keys_to_remove |-> {k \in Clients : Stale(k, wallTime, ttl)}]
    /\ rpc' = [rpc EXCEPT ![Cleaner] = "delete"]
    /\ UNCHANGED <<wallTime, buckets, bucketObjs, frame, draws, requests,
                   auditVars, retVars, anonVars>>

\* cleanup_stale_buckets, lines 84-85 and the end of the `with` block
G_Delete ==
    /\ rpc[Cleaner] = "delete"
    /\ buckets' = [k \in Clients |->
                      IF k \in sweep.keys_to_remove THEN 0 ELSE buckets[k]]
    /\ limiterLock' = "free"
    /\ sweep' = NoSweep
    /\ rpc' = [rpc EXCEPT ![Cleaner] = "idle"]
    /\ UNCHANGED <<wallTime, bucketObjs, frame, draws, requests, auditVars,
                   retVars, anonVars>>

\* The callers of one shared APIRateLimiter: two call allow_request, one
\* calls cleanup_stale_buckets, and the clock moves on
NextRate ==
    \/ \E t \in Requesters, key \in Clients, is_vip \in BOOLEAN :
          R_GetBucket(t, key, is_vip)
    \/ \E t \in Requesters : B_Acquire(t)
    \/ \E t \in Requesters : B_RefillTokens(t)
    \/ \E t \in Requesters : B_RefillStamp(t)
    \/ \E t \in Requesters : B_Take(t)
    \/ G_Scan(Ttl)
    \/ G_Delete
    \/ RateTick

\* One TokenBucket, with the default refill rate, used on its own by two
\* callers of consume
BucketInit ==
    /\ wallTime = 0
    /\ buckets = [c \in Clients |-> 0]
    /\ bucketObjs = <<TokenBucket(BucketCapacity, DefaultRate, 0)>>
    /\ limiterLock = "free"
    /\ rpc = [t \in Callers |-> "idle"]
    /\ frame = [t \in Callers |-> NoFrame]
    /\ sweep = NoSweep
    /\ draws = <<>>
    /\ requests = [t \in Callers |-> 0]

NextBucket ==
    \/ \E t \in Requesters, n \in 0..MaxTake : B_Consume(t, 1, n)
    \/ \E t \in Requesters : B_Acquire(t)
    \/ \E t \in Requesters : B_RefillTokens(t)
    \/ \E t \in Requesters : B_RefillStamp(t)
    \/ \E t \in Requesters : B_Take(t)
    \/ RateTick

(***************************************************************************)
(* RetentionPolicyManager (lines 202-234).  Time is counted in hours.      *)
(***************************************************************************)
Days(n) == n * 24

\* self.policies (lines 207-212), each timedelta in hours
Policies ==
    [user_logs           |-> Days(90),
     transaction_history |-> Days(365 * 7),
     temp_files          |-> 24,
     chat_history        |-> Days(180)]

\* (a variant that still retains at the exact end of the period)
CheckEligibilityInclusive(data_type, created_at, t) ==
    IF data_type \notin DOMAIN Policies
    THEN TRUE
    ELSE t <= created_at + Policies[data_type]

\* check_eligibility(data_type, created_at) when the clock reads t
CheckEligibility(data_type, created_at, t) ==
    IF data_type \notin DOMAIN Policies
    THEN TRUE
    ELSE t < created_at + Policies[data_type]

\* The keys of self.policies in the order the dict holds them
PolicyOrder ==
    <<"user_logs", "transaction_history", "temp_files", "chat_history">>

\* str(delta) of a timedelta of h hours
StrTimedelta(h) == <<"timedelta", h>>

\* (a variant whose cutoff is an hour late)
GetCleanupScheduleLate(t) ==
    [i \in 1..Len(PolicyOrder) |->
        [data_type |-> PolicyOrder[i],
         retention_period |-> StrTimedelta(Policies[PolicyOrder[i]]),
         clean_records_before |->
             Isoformat(t - Policies[PolicyOrder[i]] + 1)]]

\* get_cleanup_schedule() when the clock reads t (lines 224-234)
GetCleanupSchedule(t) ==
    [i \in 1..Len(PolicyOrder) |->
        [data_type |-> PolicyOrder[i],
         retention_period |-> StrTimedelta(Policies[PolicyOrder[i]]),
         clean_records_before |-> Isoformat(t - Policies[PolicyOrder[i]])]]

\* The instant the model's clock starts at: late enough for an item of any
\* category to have outlived its retention period.
Epoch == Days(365 * 7) + 2

\* Categories a caller asks about: the configured ones and one that is not
Categories == DOMAIN Policies \cup {"avatars"}

\* Creation instants a caller asks about: around every category's cutoff,
\* and around the present.
CreationTimes ==
    {Epoch + MaxTicks - Policies[c] + d :
        c \in DOMAIN Policies, d \in (0 - MaxTicks - 1)..1}
    \cup {Epoch, Epoch + MaxTicks + 1}

NoCheck == [data_type |-> "", created_at |-> 0, at |-> 0, retain |-> TRUE,
            done |-> FALSE]

NoSchedule == [at |-> 0, rows |-> <<>>, done |-> FALSE]

RetentionInit ==
    /\ now = Epoch
    /\ lastCheck = NoCheck
    /\ schedule = NoSchedule

\* The clock advances by an hour
Tick ==
    /\ now < Epoch + MaxTicks
    /\ now' = now + 1
    /\ UNCHANGED <<lastCheck, schedule, auditVars, anonVars, rateVars>>

\* A check_eligibility call
CheckEligibilityCall(data_type, created_at) ==
    /\ lastCheck' = [data_type |-> data_type, created_at |-> created_at,
                     at |-> now, done |-> TRUE,
                     retain |-> CheckEligibility(data_type, created_at, now)]
    /\ UNCHANGED <<now, schedule, auditVars, anonVars, rateVars>>

\* A get_cleanup_schedule call
GetCleanupScheduleCall ==
    /\ schedule' = [at |-> now, rows |-> GetCleanupSchedule(now),
                    done |-> TRUE]
    /\ UNCHANGED <<now, lastCheck, auditVars, anonVars, rateVars>>

NextRetention ==
    \/ Tick
    \/ \E c \in Categories, t \in CreationTimes : CheckEligibilityCall(c, t)
    \/ GetCleanupScheduleCall

Init == AuditInit /\ RetentionInit /\ AnonIdle /\ RateInit

SpecRetention == Init /\ [][NextRetention]_vars

Next ==
    /\ calls < MaxCalls
    /\ \/ \E u \in Users, a \in Actions, r \in Resources, g \in BOOLEAN,
             d \in 0..MaxDrift : LogAccess(u, a, r, g, d)
       \/ \E f \in Formats : ExportReport(f)

Spec == Init /\ [][Next]_vars

(***************************************************************************)
(* The rotation specification: one caller logs MaxRotCalls accesses in a   *)
(* row; the arguments of the k-th call are fixed by k, and differ from one *)
(* call to the next.                                                       *)
(***************************************************************************)
RotUser(k)    == IF k % 2 = 0 THEN "u1" ELSE "u2"
RotAction(k)  == IF k % 3 = 0 THEN "WRITE" ELSE "READ"
RotGranted(k) == k % 5 # 0
RotDrift(k)   == k % 2

RotLogAccess ==
    /\ calls < MaxRotCalls
    /\ LogAccess(RotUser(calls + 1), RotAction(calls + 1), "profile_data",
                 RotGranted(calls + 1), RotDrift(calls + 1))

NextRot == RotLogAccess

SpecRotation == Init /\ [][NextRot]_vars

\* The clock reading at the start of the k-th call of the rotation
\* specification: the drifts of the calls before it, added up.
RotClockBefore(k) == k \div 2

\* The entry the k-th call of the rotation specification logs.
RotEntry(k) ==
    NewEntry(RotUser(k), RotAction(k), "profile_data", RotGranted(k),
             RotClockBefore(k), RotClockBefore(k) + RotDrift(k), k)

\* C1: after exactly 1001 sequential log_access calls on a fresh AuditTrail
\* the ledger holds exactly 100 entries, and they are the entries of the
\* calls 902..1001, in the order they were appended.
C1_RotationKeepsLast100 ==
    calls = RotateThreshold + 1 =>
        /\ Len(ledger) = KeepCount
        /\ \A i \in 1..KeepCount :
              ledger[i] = RotEntry(RotateThreshold + 1 - KeepCount + i)

\* C1 witness: the 1001st call has returned and the rotation has happened.
C1_Witness ==
    /\ calls = RotateThreshold + 1
    /\ ledgerRef # 1
    /\ Len(ledger) = KeepCount

\* C17: after any number of sequential log_access calls the ledger is a
\* contiguous suffix, in append order, of the sequence of all the entries
\* logged so far; it holds at most 1000 entries and at least min(n, 100),
\* n being the number of entries logged so far.
C17_LedgerIsSuffix ==
    /\ Len(ledger) <= RotateThreshold
    /\ Len(ledger) <= calls
    /\ Len(ledger) >= Min(calls, KeepCount)
    /\ \A i \in 1..Len(ledger) :
          ledger[i] = RotEntry(calls - Len(ledger) + i)

\* C17 witness: the ledger has been rotated twice and has grown again; it
\* holds the last 101 of the 1903 entries logged.
C17_Witness ==
    /\ calls = 2 * (RotateThreshold + 1) - KeepCount + 1
    /\ ledgerRef = 3
    /\ Len(ledger) = KeepCount + 1
    /\ ledger[1] = RotEntry(calls - KeepCount)

(***************************************************************************)
(* The concurrent specification.  One caller first logs WarmUpCalls        *)
(* accesses in a row; then the callers A and B call log_access and the     *)
(* caller E calls export_report on the same AuditTrail, their steps        *)
(* interleaved.  AuditTrail takes no lock (`_lock` is a flag that nothing  *)
(* reads), so a call is a sequence of steps: loading the attribute         *)
(* self.ledger, list.append, the len test, the slice and the assignment of *)
(* _rotate_logs.  Building the entry touches nothing shared and is folded  *)
(* into the append step.  Serialising a list object walks it to its end;   *)
(* as list objects only ever grow, what the walk returns is the contents   *)
(* of the object when the walk ends, which is the step E_Serialize.        *)
(***************************************************************************)
LoggerUser(t) == IF t = "A" THEN "u1" ELSE "u2"

\* The list objects something still refers to
Reachable(lref, refs) == {lref} \cup ({refs[t] : t \in Threads} \ {0})

Collect(ls, lref, refs) == [o \in DOMAIN ls \cap Reachable(lref, refs) |-> ls[o]]

Started == calls >= WarmUpCalls

WarmUp ==
    /\ ~Started
    /\ LogAccess(RotUser(calls + 1), RotAction(calls + 1), "profile_data",
                 RotGranted(calls + 1), 0)

\* self.ledger.append(entry), first half: LOAD_ATTR ledger
T_LoadLedger(t) ==
    /\ Started
    /\ pc[t] = "idle"
    /\ threadCalls[t] < MaxThreadCalls
    /\ ref' = [ref EXCEPT ![t] = ledgerRef]
    /\ pc' = [pc EXCEPT ![t] = "append"]
    /\ UNCHANGED <<lists, ledgerRef, retired, clock, nextEventId, calls,
                   lastExport, slice, threadCalls, retVars, anonVars,
                   rateVars>>

\* self.ledger.append(entry), second half: the call of list.append on the
\* object that was loaded
T_Append(t) ==
    /\ pc[t] = "append"
    /\ LET entry == NewEntry(LoggerUser(t), "READ", "profile_data", TRUE,
                             clock, clock, nextEventId)
           refs  == [ref EXCEPT ![t] = 0]
       IN  /\ lists' = Collect([lists EXCEPT ![ref[t]] = Append(@, entry)],
                               ledgerRef, refs)
           /\ ref' = refs
    /\ nextEventId' = nextEventId + 1
    /\ pc' = [pc EXCEPT ![t] = "check"]
    /\ UNCHANGED <<ledgerRef, retired, clock, calls, lastExport, slice,
                   threadCalls, retVars, anonVars,
                   rateVars>>

\* if len(self.ledger) > 1000
T_CheckLen(t) ==
    /\ pc[t] = "check"
    /\ IF NeedsRotation(ledger)
       THEN /\ pc' = [pc EXCEPT ![t] = "slice"]
            /\ UNCHANGED threadCalls
       ELSE /\ pc' = [pc EXCEPT ![t] = "idle"]
            /\ threadCalls' = [threadCalls EXCEPT ![t] = @ + 1]
    /\ UNCHANGED <<lists, ledgerRef, retired, clock, nextEventId, calls,
                   lastExport, ref, slice, retVars, anonVars,
                   rateVars>>

\* _rotate_logs, right-hand side: self.ledger[-100:] builds a new list
T_Slice(t) ==
    /\ pc[t] = "slice"
    /\ slice' = [slice EXCEPT ![t] = RotateLogs(ledger)]
    /\ pc' = [pc EXCEPT ![t] = "assign"]
    /\ UNCHANGED <<lists, ledgerRef, retired, clock, nextEventId, calls,
                   lastExport, ref, threadCalls, retVars, anonVars,
                   rateVars>>

\* _rotate_logs, assignment: self.ledger is rebound to the new list
T_Assign(t) ==
    /\ pc[t] = "assign"
    /\ ledgerRef' = ledgerRef + 1
    /\ lists' = Collect(lists @@ ((ledgerRef + 1) :> slice[t]),
                        ledgerRef + 1, ref)
    /\ retired' = retired @@ (ledgerRef :> Len(ledger))
    /\ slice' = [slice EXCEPT ![t] = <<>>]
    /\ pc' = [pc EXCEPT ![t] = "idle"]
    /\ threadCalls' = [threadCalls EXCEPT ![t] = @ + 1]
    /\ UNCHANGED <<clock, nextEventId, calls, lastExport, ref, retVars, anonVars,
                   rateVars>>

\* export_report: the format test, then LOAD_ATTR ledger
E_Begin(format) ==
    /\ Started
    /\ pc[Exporter] = "idle"
    /\ lastExport = NoExport
    /\ IF format \in {"json", "csv"}
       THEN /\ ref' = [ref EXCEPT ![Exporter] = ledgerRef]
            /\ pc' = [pc EXCEPT ![Exporter] = "serialize"]
            /\ lastExport' = [NoExport EXCEPT !.status = "running",
                                              !.format = format]
       ELSE /\ lastExport' = ExportOf(format, <<>>, 0)
            /\ UNCHANGED <<ref, pc>>
    /\ UNCHANGED <<lists, ledgerRef, retired, clock, nextEventId, calls,
                   slice, threadCalls, retVars, anonVars,
                   rateVars>>

\* export_report: json.dumps / the list comprehension reach the end of the
\* list object that was loaded
E_Serialize ==
    /\ pc[Exporter] = "serialize"
    /\ lastExport' = ExportOf(lastExport.format, lists[ref[Exporter]],
                              ref[Exporter])
    /\ LET refs == [ref EXCEPT ![Exporter] = 0]
       IN  /\ ref' = refs
           /\ lists' = Collect(lists, ledgerRef, refs)
    /\ pc' = [pc EXCEPT ![Exporter] = "idle"]
    /\ UNCHANGED <<ledgerRef, retired, clock, nextEventId, calls, slice,
                   threadCalls, retVars, anonVars,
                   rateVars>>

NextConc ==
    \/ WarmUp
    \/ \E t \in Loggers : T_LoadLedger(t)
    \/ \E t \in Loggers : T_Append(t)
    \/ \E t \in Loggers : T_CheckLen(t)
    \/ \E t \in Loggers : T_Slice(t)
    \/ \E t \in Loggers : T_Assign(t)
    \/ \E f \in Formats : E_Begin(f)
    \/ E_Serialize

SpecConc == Init /\ [][NextConc]_vars

Quiescent == \A t \in Threads : pc[t] = "idle"

\* C2: whenever no call is in progress, the ledger holds the most recently
\* appended entries, none missing, in the order of their appends (event_id
\* is the serial number of the append): it lacks nothing but what a
\* rotation discarded, and a rotation keeps the 100 most recent entries.
C2_NoLostEntry ==
    Quiescent =>
        /\ \A i \in 1..Len(ledger) :
              ledger[i].event_id = nextEventId - 1 - Len(ledger) + i
        /\ Len(ledger) >= Min(KeepCount, nextEventId - 1)

\* C3: what a finished export_report returns is the whole ledger as it was
\* at some instant of the call, before or after a rotation.  The export
\* serialised a list object that was self.ledger when the call began; its
\* rows are the ledger of some instant unless the object had been retired
\* with fewer entries than the rows returned.
C3_ExportIsLedgerSnapshot ==
    (lastExport.status = "ok" /\ lastExport.list \in DOMAIN retired) =>
        Len(lastExport.rows) <= retired[lastExport.list]

\* C8 as stated: for "user_logs" check_eligibility returns false when the
\* age now - created_at exceeds 90 days and true for every other age, the
\* exact 90 days included; for a category without a policy it returns true.
C8_RetainedThroughBoundary ==
    lastCheck.done =>
        IF lastCheck.data_type = "user_logs"
        THEN lastCheck.retain <=>
                ~(lastCheck.at - lastCheck.created_at > Days(90))
        ELSE lastCheck.data_type \notin DOMAIN Policies => lastCheck.retain

\* C8 amended: for "user_logs" check_eligibility returns true exactly when
\* the age now - created_at is less than 90 days, and false at an age of
\* exactly 90 days and beyond; for a category without a policy it returns
\* true whatever the age.
C8_RetainedBeforeBoundary ==
    lastCheck.done =>
        IF lastCheck.data_type = "user_logs"
        THEN lastCheck.retain <=>
                lastCheck.at - lastCheck.created_at < Days(90)
        ELSE lastCheck.data_type \notin DOMAIN Policies => lastCheck.retain

\* C8 witness: a check of a "user_logs" item exactly 90 days old, refused.
C8_Witness ==
    /\ lastCheck.done
    /\ lastCheck.data_type = "user_logs"
    /\ lastCheck.at - lastCheck.created_at = Days(90)
    /\ ~lastCheck.retain

\* A step that is an export_report call: a call that logs no entry.
ExportStep == calls' = calls + 1 /\ nextEventId' = nextEventId

\* C9: an export_report call leaves the ledger as it was, the same list
\* with the same entries in the same order, whatever the format; it fails
\* with the unsupported-format error exactly when the format is neither
\* "json" nor "csv", and otherwise returns a report.
C9_ExportFailsCleanly ==
    [][ExportStep =>
          /\ ledgerRef' = ledgerRef
          /\ lists' = lists
          /\ lastExport'.status =
                IF lastExport'.format \in {"json", "csv"}
                THEN "ok" ELSE "ValueError"]_vars

\* C9 witness: an export in an unknown format has failed on a ledger that
\* holds an entry.
C9_Witness ==
    /\ lastExport.status = "ValueError"
    /\ lastExport.format = "xml"
    /\ Len(ledger) >= 1

\* C10: the integrity hash of every ledger entry is the hash of the
\* entry's own user_id, action and timestamp.
C10_HashOfOwnTimestamp ==
    \A i \in 1..Len(ledger) :
        ledger[i].integrity_hash =
            GenerateIntegrityHash(ledger[i].user_id, ledger[i].action,
                                  ParseIso(ledger[i].timestamp))

\* The call process_record(record)
ProcessRecordCall ==
    /\ result.status = "pending"
    /\ LET res == ProcessRecord(objs, 1, salt)
       IN  /\ objs' = res.heap
           /\ result' = [status |-> IF res.err = "" THEN "ok" ELSE res.err,
                         out |-> res.out]
    /\ UNCHANGED <<inObjs, salt, auditVars, retVars, rateVars>>

NextAnon == ProcessRecordCall

InitAnon == AuditInit /\ RetentionInit /\ AnonInit /\ RateInit

SpecAnon == InitAnon /\ [][NextAnon]_vars

(***************************************************************************)
(* Comparing the record passed (object a of heap hin) with the record      *)
(* returned (object b of heap hout).                                       *)
(***************************************************************************)
KeySet(d) == {d.keys[i] : i \in 1..Len(d.keys)}

RECURSIVE SameShape(_, _, _, _)
SameShapeValue(hin, va, hout, vb) ==
    IF IsRef(va) THEN IsRef(vb) /\ SameShape(hin, va.id, hout, vb.id)
    ELSE ~IsRef(vb)

\* The same keys at every level, sequences of the same length, a record
\* where there was a record, a sequence where there was a sequence and a
\* scalar where there was a scalar
SameShape(hin, a, hout, b) ==
    LET x == hin[a]
        y == hout[b]
    IN  /\ x.kind = y.kind
        /\ IF x.kind = "dict"
           THEN /\ Len(x.keys) = Len(y.keys)
                /\ KeySet(x) = KeySet(y)
                /\ \A i \in 1..Len(x.keys) :
                      HasKey(y, x.keys[i]) =>
                          SameShapeValue(hin, x.vals[i], hout,
                                         y.vals[KeyIndex(y, x.keys[i])])
           ELSE /\ Len(x.elems) = Len(y.elems)
                /\ \A j \in 1..Len(x.elems) :
                      SameShapeValue(hin, x.elems[j], hout, y.elems[j])

\* The scalar leaves of the record passed, each with its key and with the
\* value the record returned has under the same key at the same place:
\* leaves of the record itself, of its nested records and of the records in
\* its sequences (scalar elements of a sequence have no key and are left out)
RECURSIVE LeafPairs(_, _, _, _)
LeafPairsValue(hin, va, hout, vb) ==
    IF IsRef(va) /\ IsRef(vb) THEN LeafPairs(hin, va.id, hout, vb.id) ELSE {}

LeafPairs(hin, a, hout, b) ==
    LET x == hin[a]
        y == hout[b]
    IN  IF x.kind = "dict" /\ y.kind = "dict"
        THEN UNION {
               IF ~HasKey(y, x.keys[i]) THEN {}
               ELSE IF IsRef(x.vals[i])
               THEN LeafPairsValue(hin, x.vals[i], hout,
                                   y.vals[KeyIndex(y, x.keys[i])])
               ELSE {[key |-> x.keys[i], old |-> x.vals[i],
                      new |-> y.vals[KeyIndex(y, x.keys[i])]]} :
               i \in 1..Len(x.keys)}
        ELSE IF x.kind = "list" /\ y.kind = "list"
        THEN UNION {LeafPairsValue(hin, x.elems[j], hout, y.elems[j]) :
                       j \in 1..Min(Len(x.elems), Len(y.elems))}
        ELSE {}

\* The objects reachable from object a of heap h, a included
RECURSIVE Under(_, _)
Under(h, a) ==
    LET x == h[a]
        vs == IF x.kind = "dict" THEN x.vals ELSE x.elems
    IN  {a} \cup UNION {IF IsRef(vs[i]) THEN Under(h, vs[i].id) ELSE {} :
                           i \in 1..Len(vs)}

Returned == result.status = "ok"

Leaves == LeafPairs(inObjs, 1, objs, result.out)

\* C4: process_record raises no error, whatever the record.
C4_NeverRaises == result.status \in {"pending", "ok"}

\* C5 as stated: every leaf with key "password" and a non-empty string
\* value comes back as the SHA-256 digest of the value plus the salt.
C5_PasswordAlwaysHashed ==
    Returned =>
        \A p \in Leaves :
            (p.key = KeyPassword /\ IsStr(p.old) /\ p.old.s # <<>>) =>
                p.new = Digest(p.old.s \o salt)

\* C5 amended: every leaf with key "password" and a non-empty string value
\* that does not match the email pattern of the Pattern Library comes back
\* as the SHA-256 digest of the value plus the salt.
C5_PasswordHashedUnlessEmail ==
    Returned =>
        \A p \in Leaves :
            (/\ p.key = KeyPassword
             /\ IsStr(p.old)
             /\ p.old.s # <<>>
             /\ ~PatternMatches("email", p.old.s)) =>
                p.new = Digest(p.old.s \o salt)

\* C5 witness: a nested "password" leaf with a plain text value was hashed.
C5_Witness ==
    /\ Returned
    /\ Len(inObjs) > 1
    /\ \E p \in Leaves :
          /\ p.key = KeyPassword
          /\ p.old = Str(<<"h", "u", "n", "t", "e", "r", "2">>)
          /\ p.new = Digest(<<"h", "u", "n", "t", "e", "r", "2">> \o salt)

\* C6: process_record leaves every object of the record passed as it was
\* (whether it returns or raises), and the record it returns and every
\* record nested in it are new objects.
C6_InputUntouched ==
    result.status # "pending" =>
        /\ \A o \in 1..Len(inObjs) : objs[o] = inObjs[o]
        /\ Returned =>
              \A o \in Under(objs, result.out) :
                  objs[o].kind = "dict" => o > Len(inObjs)

\* C6 witness: a record with a nested record and a sequence was processed
\* and some leaf of it was masked.
C6_Witness ==
    /\ Returned
    /\ Len(inObjs) = 4
    /\ \E p \in Leaves : p.new # p.old

\* C7: the record returned has the same keys as the record passed at every
\* nesting level, and sequences of the same length.
C7_ShapePreserved ==
    Returned => SameShape(inObjs, 1, objs, result.out)

\* C7 witness: a leaf of a nested record was suppressed (its key is kept
\* and is bound to null).
C7_Witness ==
    /\ Returned
    /\ Len(inObjs) > 1
    /\ \E p \in Leaves : p.old.t # "null" /\ p.new.t = "null"

\* Rule k matches the leaf by field name: a case-insensitive search of the
\* rule's field-name pattern in the key
MatchesByName(k, key) == Contains(Lower(key), Rules[k].field_name)

\* Rule k matches the leaf by value: its value-pattern key names an entry
\* of the Pattern Library and that entry matches the string value
MatchesByValue(k, v) ==
    /\ IsStr(v)
    /\ Rules[k].pattern \in PatternKeys
    /\ PatternMatches(Rules[k].pattern, v.s)

\* Rule k is the first rule in declaration order that matches the leaf
FirstToMatch(k, key, v) ==
    /\ MatchesByName(k, key) \/ MatchesByValue(k, v)
    /\ \A j \in 1..(k - 1) : ~(MatchesByName(j, key) \/ MatchesByValue(j, v))

\* The leaf p came back as the first rule that matches it says, and as it
\* was when no rule matches it
MaskedByFirstRule(p) ==
    /\ \A k \in 1..Len(Rules) :
          FirstToMatch(k, p.key, p.old) =>
              p.new = ApplyMask(p.old, Rules[k].masking_strategy, salt).v
    /\ (\A k \in 1..Len(Rules) :
            ~(MatchesByName(k, p.key) \/ MatchesByValue(k, p.old)))
        => p.new = p.old

\* C11: every scalar leaf of a record process_record returns carries the
\* result of the masking strategy of the first rule, in declaration order,
\* that matches it by field name or by value, and a leaf that no rule
\* matches is returned unchanged.
C11_FirstMatchWins ==
    Returned => \A p \in Leaves : MaskedByFirstRule(p)

\* C11 witness: a "password" leaf whose value has the shape of an e-mail
\* address is matched by the email rule (by value) and by the password rule
\* (by name); it came back partially masked, as the email rule says.
C11_Witness ==
    /\ Returned
    /\ \E p \in Leaves :
          /\ p.key = KeyPassword
          /\ p.old = Str(<<"b", "o", "b", "@", "x", ".", "o", "r", "g">>)
          /\ p.new = Str(<<"b", "*", "b", "@", "x", ".", "o", "r", "g">>)
          /\ p.new # ApplyMask(p.old, "hash", salt).v

\* An empty or falsy scalar: the empty string, 0, false, null
IsEmptyValue(v) == v \in {Str(<<>>), Num(0), Bool(FALSE), Null}

\* C12: a scalar leaf whose value is empty or falsy is returned unchanged,
\* whatever rule matches it and whatever that rule's strategy is.
C12_FalsyUnchanged ==
    Returned =>
        \A p \in Leaves : IsEmptyValue(p.old) => p.new = p.old

\* C12 witness: a 0 under "password", which the hash rule matches, came
\* back as 0 from a nested record.
C12_Witness ==
    /\ Returned
    /\ Len(inObjs) > 1
    /\ \E p \in Leaves :
          p.key = KeyPassword /\ p.old = Num(0) /\ p.new = Num(0)

\* The fields of the record passed whose value is a sequence, each with its
\* key, the list object it is bound to and the list object the record
\* returned has under the same key at the same place
RECURSIVE SeqFields(_, _, _, _)
SeqFieldsValue(hin, va, hout, vb) ==
    IF IsRef(va) /\ IsRef(vb) THEN SeqFields(hin, va.id, hout, vb.id) ELSE {}

SeqFields(hin, a, hout, b) ==
    LET x == hin[a]
        y == hout[b]
    IN  IF x.kind = "dict" /\ y.kind = "dict"
        THEN UNION {
               IF ~HasKey(y, x.keys[i]) \/ ~IsRef(x.vals[i]) THEN {}
               ELSE LET vb == y.vals[KeyIndex(y, x.keys[i])]
                    IN  (IF IsList(hin, x.vals[i])
                         THEN {[key |-> x.keys[i], old |-> x.vals[i], new |-> vb]}
                         ELSE {})
                        \cup SeqFieldsValue(hin, x.vals[i], hout, vb) :
               i \in 1..Len(x.keys)}
        ELSE IF x.kind = "list" /\ y.kind = "list"
        THEN UNION {SeqFieldsValue(hin, x.elems[j], hout, y.elems[j]) :
                       j \in 1..Min(Len(x.elems), Len(y.elems))}
        ELSE {}

Sequences == SeqFields(inObjs, 1, objs, result.out)

\* C13: for a field whose value is a sequence, the sequence returned has a
\* processed record where the sequence passed has a record and the very
\* same scalar where it has a scalar, position by position, whatever the
\* key of the field and whatever the scalar looks like.
C13_SequenceElementwise ==
    Returned =>
        \A q \in Sequences :
            /\ IsList(objs, q.new)
            /\ LET xs == inObjs[q.old.id].elems
                   ys == objs[q.new.id].elems
               IN  /\ Len(ys) = Len(xs)
                   /\ \A j \in 1..Len(xs) :
                         IF IsDict(inObjs, xs[j])
                         THEN /\ IsDict(objs, ys[j])
                              /\ KeySet(objs[ys[j].id]) = KeySet(inObjs[xs[j].id])
                              /\ \A p \in LeafPairs(inObjs, xs[j].id, objs, ys[j].id) :
                                    MaskedByFirstRule(p)
                         ELSE IsRef(xs[j]) \/ ys[j] = xs[j]

\* C13 witness: a sequence under "password" holding a string with the shape
\* of an e-mail address and a record; the string came back as it was and
\* the record came back with its "email" leaf masked.
C13_Witness ==
    /\ Returned
    /\ \E q \in Sequences :
          /\ q.key = KeyPassword
          /\ Len(inObjs[q.old.id].elems) = 2
          /\ inObjs[q.old.id].elems[1] = Str(<<"a", "@", "b", ".", "c">>)
          /\ objs[q.new.id].elems[1] = Str(<<"a", "@", "b", ".", "c">>)
          /\ \E p \in LeafPairs(inObjs, inObjs[q.old.id].elems[2].id,
                                 objs, objs[q.new.id].elems[2].id) :
                p.key = KeyEmail /\ p.old = Str(<<"b", "o", "b", "@", "x", ".", "o", "r", "g">>)
                                /\ p.new = Str(<<"b", "*", "b", "@", "x", ".", "o", "r", "g">>)

\* The leaves the email rule, the first of the table, matches by value or
\* by name: the partial_mask strategy is applied to them
PartiallyMasked == {p \in Leaves : FirstToMatch(1, p.key, p.old)}

\* C14 as stated: partial_mask turns "ab@example.com" into "a*@example.com"
\* and "alice@example.com" into "a***e@example.com".
C14_TwoCharLocalPartOneStar ==
    Returned =>
        \A p \in PartiallyMasked :
            /\ p.old = Str(<<"a", "b", "@", "e", "x", "a", "m", "p", "l", "e", ".", "c", "o", "m">>)
                  => p.new = Str(<<"a", "*", "@", "e", "x", "a", "m", "p", "l", "e", ".", "c", "o", "m">>)
            /\ p.old = Str(<<"a", "l", "i", "c", "e", "@", "e", "x", "a", "m", "p", "l", "e", ".", "c", "o", "m">>)
                  => p.new = Str(<<"a", "*", "*", "*", "e", "@", "e", "x", "a", "m", "p", "l", "e", ".", "c", "o", "m">>)

\* C14 amended: partial_mask turns "ab@example.com" into
\* "a***@example.com" (a local part of at most two characters keeps its
\* first character and gets three asterisks) and "alice@example.com" into
\* "a***e@example.com"; the domain part is kept as it is in both.
C14_TwoCharLocalPartThreeStars ==
    Returned =>
        \A p \in PartiallyMasked :
            /\ p.old = Str(<<"a", "b", "@", "e", "x", "a", "m", "p", "l", "e", ".", "c", "o", "m">>)
                  => p.new = Str(<<"a", "*", "*", "*", "@", "e", "x", "a", "m", "p", "l", "e", ".", "c", "o", "m">>)
            /\ p.old = Str(<<"a", "l", "i", "c", "e", "@", "e", "x", "a", "m", "p", "l", "e", ".", "c", "o", "m">>)
                  => p.new = Str(<<"a", "*", "*", "*", "e", "@", "e", "x", "a", "m", "p", "l", "e", ".", "c", "o", "m">>)

\* C14 witness: "ab@example.com" under "email" came back as
\* "a***@example.com".
C14_Witness ==
    /\ Returned
    /\ \E p \in PartiallyMasked :
          /\ p.key = KeyEmail
          /\ p.old = Str(<<"a", "b", "@", "e", "x", "a", "m", "p", "l", "e", ".", "c", "o", "m">>)
          /\ p.new = Str(<<"a", "*", "*", "*", "@", "e", "x", "a", "m", "p", "l", "e", ".", "c", "o", "m">>)

\* The string leaves a rule with the hash strategy is applied to
HashMasked ==
    {p \in Leaves :
        /\ IsStr(p.old)
        /\ \E k \in 1..Len(Rules) :
              /\ FirstToMatch(k, p.key, p.old)
              /\ Rules[k].masking_strategy = "hash"}

\* What an instance whose salt is s makes of the value v by hash masking
HashMaskingBy(s, v) == ApplyMask(v, "hash", s).v

\* The salt of the instance is never changed
SaltIsFixed == [][salt' = salt]_vars

\* C15 as stated: for every string, hash masking by the instance gives the
\* same digest when repeated (the salt never changes) and an instance with
\* a different salt gives a different digest.
C15_HashPerInstance ==
    /\ SaltIsFixed
    /\ [](Returned =>
            \A p \in HashMasked :
                /\ p.new = HashMaskingBy(salt, p.old)
                /\ \A other \in Salts \ {salt} :
                      HashMaskingBy(other, p.old) # p.new)

\* C15 amended: for every non-empty string, hash masking by the instance
\* gives the same digest when repeated (the salt never changes) and an
\* instance with a different salt gives a different digest; the empty
\* string is returned as it is by every instance.
C15_HashPerInstanceNonEmpty ==
    /\ SaltIsFixed
    /\ [](Returned =>
            \A p \in HashMasked :
                /\ p.new = HashMaskingBy(salt, p.old)
                /\ \A other \in Salts \ {salt} :
                      IF p.old.s # <<>>
                      THEN HashMaskingBy(other, p.old) # p.new
                      ELSE HashMaskingBy(other, p.old) = p.new)

\* C15 witness: "hunter2" under "password" came back as the digest made
\* with the salt of the instance, which is not the digest another salt
\* gives.
C15_Witness ==
    /\ Returned
    /\ \E p \in HashMasked :
          /\ p.key = KeyPassword
          /\ p.old = Str(<<"h", "u", "n", "t", "e", "r", "2">>)
          /\ p.new = Digest(<<"h", "u", "n", "t", "e", "r", "2">> \o salt)
          /\ \E other \in Salts : HashMaskingBy(other, p.old) # p.new

\* C16: a dotted-quad IPv4 string under the key "ip_address" comes back
\* masked by mask_subnet: "192.168.1.5" becomes "192.168.***.***".
C16_IpAddressSubnetMasked ==
    Returned =>
        \A p \in Leaves :
            (p.key = KeyIp /\ p.old = Str(<<"1", "9", "2", ".", "1", "6", "8", ".", "1", ".", "5">>)) =>
                p.new = Str(<<"1", "9", "2", ".", "1", "6", "8", ".", "*", "*", "*", ".", "*", "*", "*">>)

\* No rule matches the key by field name
NoRuleNamesKey(key) == \A k \in 1..Len(Rules) : ~MatchesByName(k, key)

\* The value-pattern keys of the rule table that name a library entry
LibraryRules == {k \in 1..Len(Rules) : Rules[k].pattern \in PatternKeys}

\* C20: the phone rule and the rules with the wildcard key ".*" match by
\* field name only: their value-pattern keys name no Pattern Library entry,
\* so a string leaf under a key that no rule names comes back unchanged
\* when it has the shape of a phone number, and whenever no rule whose key
\* does name a library entry matches it.
C20_PhoneMatchesByNameOnly ==
    /\ \A k \in 1..Len(Rules) :
          Rules[k].pattern \in {"phone_.*", ".*"} => k \notin LibraryRules
    /\ Returned =>
          \A p \in Leaves :
              (IsStr(p.old) /\ NoRuleNamesKey(p.key)) =>
                  /\ (\/ PatternMatches("phone_cn", p.old.s)
                      \/ PatternMatches("phone_us", p.old.s))
                        => p.new = p.old
                  /\ (\A k \in LibraryRules :
                          ~PatternMatches(Rules[k].pattern, p.old.s))
                        => p.new = p.old

\* C20 witness: "13800138000", which has the phone_cn shape, came back
\* unchanged under the key "note".
C20_Witness ==
    /\ Returned
    /\ \E p \in Leaves :
          /\ p.key = KeyNote
          /\ p.old = Str(<<"1", "3", "8", "0", "0", "1", "3", "8", "0", "0", "0">>)
          /\ PatternMatches("phone_cn", p.old.s)
          /\ p.new = p.old

(***************************************************************************)
(* The specifications of the rate limiter and of one TokenBucket.          *)
(***************************************************************************)
SpecRate == Init /\ [][NextRate]_vars

InitBucket == AuditInit /\ RetentionInit /\ AnonIdle /\ BucketInit

SpecBucket == InitBucket /\ [][NextBucket]_vars

\* C18: cleanup_stale_buckets never takes a bucket away from under a
\* caller: every consume of allow_request is made on the bucket that
\* self._buckets holds for the client at that moment, and two consumes for
\* the same client less than ttl seconds apart are made on the same bucket.
C18_NoUseAfterCleanup ==
    /\ \A i \in DOMAIN draws : draws[i].registered
    /\ \A i \in DOMAIN draws : \A j \in DOMAIN draws :
          (/\ i < j
           /\ draws[i].client = draws[j].client
           /\ draws[j].at < draws[i].at + Ttl)
              => draws[j].bucket = draws[i].bucket

\* C19: the token count of a TokenBucket stays between 0 and its capacity;
\* a consume(n) returns True exactly when the token count it finds after
\* its refill is at least n and then lowers it by exactly n, a consume
\* that returns False takes nothing, and no token is lost between one
\* consume and the next.
C19_TokensWithinCapacity ==
    /\ \A b \in DOMAIN bucketObjs :
          /\ bucketObjs[b].tokens >= 0
          /\ bucketObjs[b].tokens <= bucketObjs[b].capacity
    /\ \A i \in DOMAIN draws :
          /\ draws[i].allowed <=> draws[i].before >= draws[i].tokens
          /\ draws[i].after = IF draws[i].allowed
                              THEN draws[i].before - draws[i].tokens
                              ELSE draws[i].before
    /\ \A i \in DOMAIN draws : \A j \in DOMAIN draws :
          (/\ i < j
           /\ draws[i].bucket = draws[j].bucket
           /\ \A k \in (i + 1)..(j - 1) : draws[k].bucket # draws[i].bucket)
              => draws[j].before >= draws[i].after

\* C19 witness: the bucket was emptied, a consume was refused, and after a
\* refill a consume was granted again, while another caller was waiting
\* for the bucket's lock.
C19_Witness ==
    /\ \E i \in DOMAIN draws : \E j \in DOMAIN draws :
          /\ i < j
          /\ ~draws[i].allowed
          /\ draws[i].before < draws[i].tokens
          /\ draws[j].allowed
          /\ draws[j].tokens > 0
          /\ draws[j].after = draws[j].before - draws[j].tokens
    /\ \E t \in Requesters : rpc[t] = "acquire"

\* The rows of the last schedule that name the category c
RowsOf(c) == {i \in 1..Len(schedule.rows) : schedule.rows[i].data_type = c}

\* The cutoff the last schedule reports for the category c
CutoffOf(c) ==
    ParseIso(schedule.rows[CHOOSE i \in RowsOf(c) : TRUE].clean_records_before)

\* A check and a schedule made at the same instant, the check of a
\* configured category
SameInstant ==
    /\ lastCheck.done
    /\ schedule.done
    /\ lastCheck.at = schedule.at
    /\ lastCheck.data_type \in DOMAIN Policies

\* A schedule has exactly one row for every configured category and no
\* other row
OneRowPerCategory ==
    schedule.done =>
        /\ Len(schedule.rows) = Cardinality(DOMAIN Policies)
        /\ \A c \in DOMAIN Policies : Cardinality(RowsOf(c)) = 1

\* A get_cleanup_schedule call leaves the clock and the last check alone
ScheduleChangesNothing ==
    [][schedule' # schedule => UNCHANGED <<now, lastCheck>>]_vars

\* C21 as stated: at one instant, check_eligibility returns false exactly
\* when created_at is strictly before the cutoff the schedule reports for
\* the category, also when created_at equals the cutoff; the schedule has
\* one row per configured category and making it changes no state.
C21_AgreeStrictlyBeforeCutoff ==
    /\ ScheduleChangesNothing
    /\ [](/\ OneRowPerCategory
          /\ SameInstant =>
                (~lastCheck.retain <=>
                    lastCheck.created_at < CutoffOf(lastCheck.data_type)))

\* C21 amended: at one instant, check_eligibility returns false exactly
\* when created_at is at or before the cutoff the schedule reports for the
\* category (false when created_at equals the cutoff, true for everything
\* after it); the schedule has one row per configured category and making
\* it changes no state.
C21_AgreeAtOrBeforeCutoff ==
    /\ ScheduleChangesNothing
    /\ [](/\ OneRowPerCategory
          /\ SameInstant =>
                (~lastCheck.retain <=>
                    lastCheck.created_at <= CutoffOf(lastCheck.data_type)))

\* C21 witness: a "temp_files" item created exactly at the cutoff the
\* schedule of the same instant reports was refused.
C21_Witness ==
    /\ SameInstant
    /\ lastCheck.data_type = "temp_files"
    /\ lastCheck.created_at = CutoffOf("temp_files")
    /\ CutoffOf("temp_files") = lastCheck.at - 24
    /\ ~lastCheck.retain
====
